---- MODULE Spec2Model ----
(***************************************************************************)
(* Model of backend/server.js (second revision, lines 177-465): the stone  *)
(* bulletin board.  The store is the PostgreSQL database (tables stones    *)
(* and posts), every `await pool.query(...)` is one atomic statement, and  *)
(* the handlers of concurrent requests interleave between their awaits.    *)
(* A statement takes effect at one instant, and NOW() is that instant.     *)
(*                                                                         *)
(* Strings that the code takes apart (host, stone id) are sequences of     *)
(* one-character strings; JavaScript's null and undefined are the          *)
(* one-element sequences NULL and UNDEFINED, which no character sequence   *)
(* equals.  Nicknames and colours are compared only as wholes and are      *)
(* strings.  The columns comment, post_location_* and user_id are left     *)
(* out: no handler reads them back to decide anything.                     *)
(***************************************************************************)
EXTENDS Integers, Sequences, FiniteSets, TLC

VARIABLES
    stones,     \* table stones: a set of rows [id, location_lat, created_at]
    posts,      \* table posts: a set of rows [id, stone_id, nickname, pin_color, created_at]
    nextId,     \* the BIGSERIAL sequence behind posts.id: the next value it hands out
    req,        \* per request slot: the handler's position and local variables
    started,    \* how many requests have arrived so far
    rin,        \* resolver harness: the inputs (host, override) drawn by InitResolve
    rout        \* resolver harness: the value computed, <<>> before the call

vars == <<stones, posts, nextId, req, started, rin, rout>>

----------------------------------------------------------------------------
(* Bounds of the model *)

MaxHostLen == 7     \* longest host string the resolver harness draws
MaxId == 2          \* posts.id values handed out in one behaviour
MaxReq == 3         \* requests that arrive in one behaviour

Slots == {"p1", "p2"}   \* requests in flight at the same time

----------------------------------------------------------------------------
(* JavaScript values *)

NULL == <<"null">>
UNDEFINED == <<"undefined">>
NullColor == "NULL"         \* pin_color IS NULL
MissingNick == "undefined"  \* body without a nickname field
NoPinColor == "undefined"   \* body without a pinColor field

Digits == {"0", "1", "2", "3", "4", "5", "6", "7", "8", "9"}

\* !x for the values a host, a stone id or an override takes
FalsyStr(x) == x = NULL \/ x = UNDEFINED \/ x = <<>>

\* !nickname
FalsyNick(n) == n = MissingNick \/ n = ""

\* a pin_color read from a row used as a condition
TruthyColor(c) == c # NullColor /\ c # ""

----------------------------------------------------------------------------
(* Entity resolver *)

\* the longest run of decimal digits at the start of s: what (\d+) captures
RECURSIVE LeadingDigits(_)
LeadingDigits(s) ==
    IF s # <<>> /\ Head(s) \in Digits
    THEN <<Head(s)>> \o LeadingDigits(Tail(s))
    ELSE <<>>

\* String.prototype.padStart(n, '0')
RECURSIVE padStart(_, _)
padStart(s, n) == IF Len(s) >= n THEN s ELSE padStart(<<"0">> \o s, n)

StonePrefix == <<"s", "t", "o", "n", "e", "-">>

\* a resolver that pads to two digits only
getStoneIdFromUrlPad2(host) ==
    IF /\ Len(host) >= 4
       /\ SubSeq(host, 1, 3) = <<"i", "s", "i">>
       /\ host[4] \in Digits
    THEN StonePrefix \o padStart(LeadingDigits(SubSeq(host, 4, Len(host))), 2)
    ELSE NULL

\* host.match(/^isi(\d+)/), then stone-<padded digits>, or null
getStoneIdFromUrl(host) ==
    IF /\ Len(host) >= 4
       /\ SubSeq(host, 1, 3) = <<"i", "s", "i">>
       /\ host[4] \in Digits
    THEN StonePrefix \o padStart(LeadingDigits(SubSeq(host, 4, Len(host))), 3)
    ELSE NULL

\* getStoneIdFromUrl(host) || req.query.stoneId   (req.body.stoneId in POST)
ResolveStoneId(host, override) ==
    LET r == getStoneIdFromUrl(host) IN IF FalsyStr(r) THEN override ELSE r

----------------------------------------------------------------------------
(* Pin-colour allocator *)

pinColors == <<"#F17900", "#6466FF", "#00C27E", "#F2DD4E">>

\* Array.prototype.indexOf: the 0-based index of the first element equal to x, or -1
indexOf(arr, x) ==
    IF \E i \in 1..Len(arr) : arr[i] = x
    THEN (CHOOSE i \in 1..Len(arr) : arr[i] = x /\ \A j \in 1..(i - 1) : arr[j] # x) - 1
    ELSE -1

\* arr[k] with k a 0-based index
at(arr, k) == arr[k + 1]

\* an allocator that steps past the end of the palette instead of wrapping
AssignColorNoWrap(latestRows, nickname) ==
    IF Len(latestRows) > 0
    THEN LET latestPost == latestRows[1] IN
         IF latestPost.nickname = nickname /\ TruthyColor(latestPost.pin_color)
         THEN latestPost.pin_color
         ELSE LET currentColorIndex ==
                      IF TruthyColor(latestPost.pin_color)
                      THEN indexOf(pinColors, latestPost.pin_color)
                      ELSE -1
              IN  IF currentColorIndex >= 0 /\ currentColorIndex + 1 < Len(pinColors)
                  THEN at(pinColors, currentColorIndex + 1)
                  ELSE IF currentColorIndex >= 0 THEN NullColor ELSE at(pinColors, 0)
    ELSE at(pinColors, 0)

\* an allocator that advances even when the nickname repeats
AssignColorNoReuse(latestRows, nickname) ==
    IF Len(latestRows) > 0
    THEN LET latestPost == latestRows[1]
             currentColorIndex ==
                 IF TruthyColor(latestPost.pin_color)
                 THEN indexOf(pinColors, latestPost.pin_color)
                 ELSE -1
         IN  IF currentColorIndex >= 0
             THEN at(pinColors, (currentColorIndex + 1) % Len(pinColors))
             ELSE at(pinColors, 0)
    ELSE at(pinColors, 0)

\* an allocator that keeps a colour it does not know when it must advance
AssignColorKeepUnknown(latestRows, nickname) ==
    IF Len(latestRows) > 0
    THEN LET latestPost == latestRows[1] IN
         IF latestPost.nickname = nickname /\ TruthyColor(latestPost.pin_color)
         THEN latestPost.pin_color
         ELSE LET currentColorIndex ==
                      IF TruthyColor(latestPost.pin_color)
                      THEN indexOf(pinColors, latestPost.pin_color)
                      ELSE -1
              IN  IF currentColorIndex >= 0
                  THEN at(pinColors, (currentColorIndex + 1) % Len(pinColors))
                  ELSE latestPost.pin_color
    ELSE at(pinColors, 0)

\* an allocator that leaves the first post of a stone without a colour
AssignColorFirstUncoloured(latestRows, nickname) ==
    IF Len(latestRows) > 0
    THEN LET latestPost == latestRows[1] IN
         IF latestPost.nickname = nickname /\ TruthyColor(latestPost.pin_color)
         THEN latestPost.pin_color
         ELSE LET currentColorIndex ==
                      IF TruthyColor(latestPost.pin_color)
                      THEN indexOf(pinColors, latestPost.pin_color)
                      ELSE -1
              IN  IF currentColorIndex >= 0
                  THEN at(pinColors, (currentColorIndex + 1) % Len(pinColors))
                  ELSE at(pinColors, 0)
    ELSE NullColor

\* the value of assignedColor, from the rows of the latest-post query
AssignColor(latestRows, nickname) ==
    IF Len(latestRows) > 0
    THEN LET latestPost == latestRows[1] IN
         IF latestPost.nickname = nickname /\ TruthyColor(latestPost.pin_color)
         THEN latestPost.pin_color
         ELSE LET currentColorIndex ==
                      IF TruthyColor(latestPost.pin_color)
                      THEN indexOf(pinColors, latestPost.pin_color)
                      ELSE -1
              IN  IF currentColorIndex >= 0
                  THEN at(pinColors, (currentColorIndex + 1) % Len(pinColors))
                  ELSE at(pinColors, 0)
    ELSE at(pinColors, 0)

----------------------------------------------------------------------------
(* The store: the SQL statements the handlers send *)

NullLoc == "NULL"   \* location_lat IS NULL

\* a query without its WHERE stone_id = $1
PostsOfAnyStone(P, sid) == P

\* WHERE stone_id = $1
PostsOf(P, sid) == {r \in P : r.stone_id = sid}

\* the orders in which the rows of R may come back under ORDER BY created_at DESC:
\* every arrangement of R with created_at never increasing; the order of rows
\* with equal created_at is not fixed by the statement
OrderedByCreatedAtDesc(R) ==
    {s \in [1..Cardinality(R) -> R] :
        /\ \A i, j \in 1..Cardinality(R) : i # j => s[i] # s[j]
        /\ \A i, j \in 1..Cardinality(R) : i < j => s[i].created_at >= s[j].created_at}

\* SELECT ... FROM posts WHERE stone_id = $1 ORDER BY created_at DESC
SelectPosts(P, sid) == OrderedByCreatedAtDesc(PostsOf(P, sid))

\* SELECT ... FROM posts WHERE stone_id = $1 ORDER BY created_at DESC LIMIT 1
SelectLatest(P, sid) ==
    IF PostsOf(P, sid) = {}
    THEN {<<>>}
    ELSE {<<r>> : r \in {x \in PostsOf(P, sid) :
                            \A y \in PostsOf(P, sid) : x.created_at >= y.created_at}}

\* the values DEFAULT NOW() may give a row inserted into table R.  The clock
\* never runs backwards and stored timestamps are only compared with each
\* other, so what counts is whether time has passed since the newest row:
\* the same timestamp again when it has not, a later one when it has.
Now(R) ==
    IF R = {}
    THEN {0}
    ELSE LET newest == CHOOSE t \in {r.created_at : r \in R} :
                           \A r \in R : r.created_at <= t
         IN  {newest, newest + 1}

StoneRow(sid, t) == [id |-> sid, location_lat |-> NullLoc, created_at |-> t]

\* an upsert: INSERT ... ON CONFLICT (id) DO UPDATE, which rewrites the row
EnsureStoneUpsert(S, sid, t) == {r \in S : r.id # sid} \cup {StoneRow(sid, t)}

\* INSERT INTO stones (id) VALUES ($1) ON CONFLICT (id) DO NOTHING
EnsureStone(S, sid, t) ==
    IF \E r \in S : r.id = sid THEN S ELSE S \cup {StoneRow(sid, t)}

\* a posts table declared without the reference: every stone_id is accepted
StoneExistsUnchecked(S, sid) == TRUE

\* posts.stone_id REFERENCES stones(id), checked when a post is inserted
StoneExists(S, sid) == \E r \in S : r.id = sid

\* posts.stone_id REFERENCES stones(id), checked when stones are deleted:
\* no stone that a post references may go
NoPostReferences(S, P) == \A r \in P : ~(\E st \in S : st.id = r.stone_id)

\* the columns a handler returns for a post (RETURNING / SELECT list)
PostJson(r) ==
    [id |-> r.id, nickname |-> r.nickname, pinColor |-> r.pin_color,
     createdAt |-> r.created_at]

\* the columns of the latest-post query
LatestJson(r) == [nickname |-> r.nickname, pin_color |-> r.pin_color]

\* result.rows of the list query
PostRows(s) == [i \in 1..Len(s) |-> PostJson(s[i])]

\* latestPosts.rows
LatestRows(s) == [i \in 1..Len(s) |-> LatestJson(s[i])]

----------------------------------------------------------------------------
(* Requests *)

HostIsi7 == <<"i", "s", "i", "7">>              \* isi7...      -> stone-007
HostOther == <<"x">>                            \* a host that is no isi<digits>
Stone007 == <<"s", "t", "o", "n", "e", "-", "0", "0", "7">>
Rock == <<"r", "o", "c", "k">>                  \* a stoneId a client sends

Hosts == {HostIsi7, HostOther, <<>>, UNDEFINED}         \* <<>>: an empty Host header,
                                                        \* UNDEFINED: no Host header
Overrides == {UNDEFINED, Rock}                  \* UNDEFINED: no stoneId field
Nicks == {"alice", "bob"}
Nicknames == Nicks \cup {"", MissingNick}
PinColorInputs == {NoPinColor, "#ABCDEF", "red"}    \* no pinColor, a hex colour, a malformed one

SlotBefore(q, p) == q = "p1" /\ p = "p2"

\* a slot with no request in it
IdleReq ==
    [kind |-> "none", pc |-> "idle", stoneId |-> NULL, nickname |-> MissingNick,
     pinColor |-> NoPinColor, latestRows |-> <<>>, assignedColor |-> NullColor, status |-> 0, rows |-> <<>>,
     deletedPosts |-> 0, deletedStones |-> 0]

\* a request may arrive in slot p.  Slots only name the requests in flight, so a
\* new request takes the first slot that has none.
Free(p) ==
    /\ started < MaxReq
    /\ req[p].pc \in {"idle", "done"}
    /\ \A q \in Slots : req[q].pc \in {"idle", "done"} => ~SlotBefore(q, p)

\* res.status(n).json(...): the handler is over and its locals are gone; what
\* stays is the response (status, rows, counts) and what it answered
Respond(r, n) ==
    [r EXCEPT !.pc = "done", !.status = n, !.nickname = MissingNick,
              !.pinColor = NoPinColor, !.latestRows = <<>>,
              !.assignedColor = NullColor]

StoreVars == <<stones, posts, nextId>>
HarnessVars == <<rin, rout>>
OtherVars == <<started, rin, rout>>

\* GET /api/posts up to its first await
ListStart(p, host, override) ==
    /\ Free(p)
    /\ LET r0 == [IdleReq EXCEPT !.kind = "list"] IN
       req' = [req EXCEPT ![p] =
                 IF host = UNDEFINED
                 THEN Respond(r0, 500)      \* host.match throws; the catch answers
                 ELSE LET stoneId == ResolveStoneId(host, override) IN
                      IF FalsyStr(stoneId)
                      THEN Respond(r0, 400)
                      ELSE [r0 EXCEPT !.pc = "l_ensure", !.stoneId = stoneId]]
    /\ started' = started + 1
    /\ UNCHANGED <<StoreVars, HarnessVars>>

\* GET /api/posts: INSERT INTO stones ... ON CONFLICT DO NOTHING
ListEnsure(p) ==
    /\ req[p].pc = "l_ensure"
    /\ \E t \in Now(stones) : stones' = EnsureStone(stones, req[p].stoneId, t)
    /\ req' = [req EXCEPT ![p].pc = "l_select"]
    /\ UNCHANGED <<posts, nextId, OtherVars>>

\* GET /api/posts: the SELECT, then res.json(result.rows)
ListSelect(p) ==
    /\ req[p].pc = "l_select"
    /\ \E result \in SelectPosts(posts, req[p].stoneId) :
          req' = [req EXCEPT ![p] =
                    Respond([@ EXCEPT !.rows = PostRows(result)], 200)]
    /\ UNCHANGED <<StoreVars, OtherVars>>

\* a handler that makes sure of the stone before it looks at the nickname
CreateStartEnsuresFirst(p, host, override, nickname, pinColor) ==
    /\ Free(p)
    /\ LET r0 == [IdleReq EXCEPT !.kind = "create"] IN
       IF host = UNDEFINED
       THEN /\ req' = [req EXCEPT ![p] = Respond(r0, 500)]
            /\ stones' = stones
       ELSE LET stoneId == ResolveStoneId(host, override) IN
            IF FalsyStr(stoneId)
            THEN /\ req' = [req EXCEPT ![p] = Respond(r0, 400)]
                 /\ stones' = stones
            ELSE IF FalsyNick(nickname)
            THEN /\ req' = [req EXCEPT ![p] =
                              Respond([r0 EXCEPT !.stoneId = stoneId], 400)]
                 /\ \E t \in Now(stones) : stones' = EnsureStone(stones, stoneId, t)
            ELSE /\ req' = [req EXCEPT ![p] =
                              [r0 EXCEPT !.pc = "c_latest", !.stoneId = stoneId,
                                         !.nickname = nickname, !.pinColor = pinColor]]
                 /\ stones' = stones
    /\ started' = started + 1
    /\ UNCHANGED <<posts, nextId, HarnessVars>>

\* POST /api/posts up to its first await.  The body may hold a pinColor; the
\* handler takes nickname, comment and postLocation out of it and no more.
CreateStart(p, host, override, nickname, pinColor) ==
    /\ Free(p)
    /\ LET r0 == [IdleReq EXCEPT !.kind = "create"] IN
       req' = [req EXCEPT ![p] =
                 IF host = UNDEFINED
                 THEN Respond(r0, 500)
                 ELSE LET stoneId == ResolveStoneId(host, override) IN
                      IF FalsyStr(stoneId)
                      THEN Respond(r0, 400)
                      ELSE IF FalsyNick(nickname)
                      THEN Respond([r0 EXCEPT !.stoneId = stoneId], 400)
                      ELSE [r0 EXCEPT !.pc = "c_latest", !.stoneId = stoneId,
                                      !.nickname = nickname, !.pinColor = pinColor]]
    /\ started' = started + 1
    /\ UNCHANGED <<StoreVars, HarnessVars>>

\* #RRGGBB
IsHexColor(c) == c \in {"#ABCDEF", "#123456"} \cup {pinColors[i] : i \in 1..Len(pinColors)}

\* a handler that takes the colour the client sent, or none when it is no hex colour
ReadLatestClientColor(p) ==
    \E latestPosts \in SelectLatest(posts, req[p].stoneId) :
       req' = [req EXCEPT ![p].pc = "c_ensure",
                          ![p].latestRows = LatestRows(latestPosts),
                          ![p].assignedColor =
                              IF IsHexColor(req[p].pinColor)
                              THEN req[p].pinColor ELSE NullColor]

\* the latest-post query and the computation of assignedColor
ReadLatest(p) ==
    \E latestPosts \in SelectLatest(posts, req[p].stoneId) :
       LET rows == LatestRows(latestPosts) IN
       req' = [req EXCEPT ![p].pc = "c_ensure",
                          ![p].latestRows = rows,
                          ![p].assignedColor = AssignColor(rows, req[p].nickname)]

\* a handler that takes a per-stone lock from its read to its insert
CreateLatestLocked(p) ==
    /\ req[p].pc = "c_latest"
    /\ \A q \in Slots \ {p} :
          ~(req[q].pc \in {"c_ensure", "c_insert"} /\ req[q].stoneId = req[p].stoneId)
    /\ ReadLatest(p)
    /\ UNCHANGED <<StoreVars, OtherVars>>

\* POST /api/posts: SELECT nickname, pin_color ... LIMIT 1, then assignedColor
CreateLatest(p) ==
    /\ req[p].pc = "c_latest"
    /\ ReadLatest(p)
    /\ UNCHANGED <<StoreVars, OtherVars>>

\* POST /api/posts: INSERT INTO stones ... ON CONFLICT DO NOTHING
CreateEnsure(p) ==
    /\ req[p].pc = "c_ensure"
    /\ \E t \in Now(stones) : stones' = EnsureStone(stones, req[p].stoneId, t)
    /\ req' = [req EXCEPT ![p].pc = "c_insert"]
    /\ UNCHANGED <<posts, nextId, OtherVars>>

\* POST /api/posts: INSERT INTO posts ... RETURNING, then res.json
CreateInsert(p) ==
    /\ req[p].pc = "c_insert"
    /\ nextId <= MaxId
    /\ nextId' = nextId + 1     \* the sequence value is used up even when the insert fails
    /\ \E t \in Now(posts) :
       LET row == [id |-> nextId, stone_id |-> req[p].stoneId,
                   nickname |-> req[p].nickname, pin_color |-> req[p].assignedColor,
                   created_at |-> t]
       IN  IF StoneExists(stones, req[p].stoneId)
           THEN /\ posts' = posts \cup {row}
                /\ req' = [req EXCEPT ![p] =
                             Respond([@ EXCEPT !.rows = <<PostJson(row)>>], 200)]
           ELSE /\ posts' = posts       \* foreign-key violation; the catch answers
                /\ req' = [req EXCEPT ![p] = Respond(@, 500)]
    /\ UNCHANGED <<stones, OtherVars>>

\* DELETE /api/debug/clear-all up to its first await
ClearStart(p) ==
    /\ Free(p)
    /\ req' = [req EXCEPT ![p] = [IdleReq EXCEPT !.kind = "clear", !.pc = "d_posts"]]
    /\ started' = started + 1
    /\ UNCHANGED <<StoreVars, HarnessVars>>

\* DELETE FROM posts
ClearPosts(p) ==
    /\ req[p].pc = "d_posts"
    /\ posts' = {}
    /\ req' = [req EXCEPT ![p].pc = "d_stones",
                          ![p].deletedPosts = Cardinality(posts)]
    /\ UNCHANGED <<stones, nextId, OtherVars>>

\* a handler that reports the posts' row count for both tables
ClearStonesReportsPosts(p) ==
    /\ req[p].pc = "d_stones"
    /\ IF NoPostReferences(stones, posts)
       THEN /\ stones' = {}
            /\ req' = [req EXCEPT ![p] =
                         Respond([@ EXCEPT !.deletedStones = req[p].deletedPosts], 200)]
       ELSE /\ stones' = stones
            /\ req' = [req EXCEPT ![p] = Respond(@, 500)]
    /\ UNCHANGED <<posts, nextId, OtherVars>>

\* DELETE FROM stones, then res.json with both row counts
ClearStones(p) ==
    /\ req[p].pc = "d_stones"
    /\ IF NoPostReferences(stones, posts)
       THEN /\ stones' = {}
            /\ req' = [req EXCEPT ![p] =
                         Respond([@ EXCEPT !.deletedStones = Cardinality(stones)], 200)]
       ELSE /\ stones' = stones         \* foreign-key violation; the catch answers
            /\ req' = [req EXCEPT ![p] = Respond(@, 500)]
    /\ UNCHANGED <<posts, nextId, OtherVars>>

----------------------------------------------------------------------------
(* The resolver on its own: every host string over a small alphabet *)

HostChars == {"i", "s", "0", "7"}
HostStrings == UNION {[1..n -> HostChars] : n \in 0..MaxHostLen}
ResolverOverrides == {UNDEFINED, <<>>, Rock}    \* no stoneId, stoneId "", stoneId "rock"

\* const stoneId = getStoneIdFromUrl(host) || req.query.stoneId
Resolve ==
    /\ rout = <<>>
    /\ rout' = <<ResolveStoneId(rin[1], rin[2])>>
    /\ UNCHANGED <<StoreVars, req, started, rin>>

----------------------------------------------------------------------------
(* The server *)

EmptyStore ==
    /\ stones = {}
    /\ posts = {}
    /\ nextId = 1

NoRequests ==
    /\ req = [p \in Slots |-> IdleReq]
    /\ started = 0

HarnessIdle ==
    /\ rin = <<UNDEFINED, UNDEFINED>>
    /\ rout = <<>>

\* the server started on an empty database
Init == EmptyStore /\ NoRequests /\ HarnessIdle

\* a colour that is not in the palette
UnknownColor == "#123456"
SeedColors == {NullColor, UnknownColor} \cup {pinColors[i] : i \in 1..Len(pinColors)}

\* the server started on a database that earlier runs have written: empty, or
\* stone-007 with one post; a post of the first revision has no pin_color
\* (ADD COLUMN leaves it NULL), one of another palette has a colour unknown here
InitSeeded ==
    /\ \/ EmptyStore
       \/ /\ stones = {StoneRow(Stone007, 0)}
          /\ \E n \in Nicks, c \in SeedColors :
                posts = {[id |-> 1, stone_id |-> Stone007, nickname |-> n,
                          pin_color |-> c, created_at |-> 0]}
          /\ nextId = 2
    /\ NoRequests
    /\ HarnessIdle

\* the resolver harness: one call on a drawn host and override
InitResolve ==
    /\ EmptyStore
    /\ NoRequests
    /\ rin \in HostStrings \X ResolverOverrides
    /\ rout = <<>>

\* a create-post request has arrived and is not answered yet
CreateInFlight == \E q \in Slots : req[q].kind = "create" /\ req[q].pc \notin {"idle", "done"}

\* one step of a request in one of the slots SS, its host among HH, its
\* stoneId among OO and the pinColor of its body among PC; with inTurn, a
\* create-post request arrives only when none is in flight
StepWith(SS, HH, OO, PC, inTurn) ==
    \/ \E p \in SS, host \in HH, override \in OO : ListStart(p, host, override)
    \/ \E p \in SS : ListEnsure(p)
    \/ \E p \in SS : ListSelect(p)
    \/ \E p \in SS, host \in HH, override \in OO, nickname \in Nicknames,
          pinColor \in PC :
          /\ inTurn => ~CreateInFlight
          /\ CreateStart(p, host, override, nickname, pinColor)
    \/ \E p \in SS : CreateLatest(p)
    \/ \E p \in SS : CreateEnsure(p)
    \/ \E p \in SS : CreateInsert(p)
    \/ \E p \in SS : ClearStart(p)
    \/ \E p \in SS : ClearPosts(p)
    \/ \E p \in SS : ClearStones(p)

\* one step of a request in one of the slots SS
Step(SS) == StepWith(SS, Hosts, Overrides, {NoPinColor}, FALSE)

\* requests handled concurrently
Next == Step(Slots)

\* requests handled one after another
NextSequential == Step({"p1"})

Spec == Init /\ [][Next]_vars

SpecSeeded == InitSeeded /\ [][NextSequential]_vars

\* concurrent requests, where a client sends a create-post request only when
\* the one before it is answered; list-posts and clear-all overlap freely
NextCreatesInTurn == StepWith(Slots, Hosts, Overrides, {NoPinColor}, TRUE)

SpecCreatesInTurn == Init /\ [][NextCreatesInTurn]_vars

\* concurrent requests for stone-007 whose bodies may hold a pinColor
NextPinColor == StepWith(Slots, {HostIsi7}, {UNDEFINED}, PinColorInputs, FALSE)

SpecPinColor == Init /\ [][NextPinColor]_vars

SpecResolve == InitResolve /\ [][Resolve]_vars

----------------------------------------------------------------------------
(* Claims about the resolver *)

\* s is `isi`, then at least k decimal digits
IsiDigits(s, k) ==
    /\ Len(s) >= 3 + k
    /\ s[1] = "i" /\ s[2] = "s" /\ s[3] = "i"
    /\ \A j \in 4..(3 + k) : s[j] \in Digits

\* the number of digits that follow `isi` in a matching host
DigitRun(s) == CHOOSE k \in 1..Len(s) : IsiDigits(s, k) /\ ~IsiDigits(s, k + 1)

Zeros(n) == [j \in 1..n |-> "0"]

\* C1: a host that starts with isi and one or more digits resolves to stone-<the
\* digits, left-padded with 0 to three characters, longer runs unchanged>,
\* whatever the override; any other host resolves to the override when that is
\* a non-empty string and to nothing (a falsy value) otherwise.
C1_Resolve ==
    rout # <<>> =>
        LET host == rin[1]
            override == rin[2]
            stoneId == rout[1]
        IN  IF IsiDigits(host, 1)
            THEN LET k == DigitRun(host) IN
                 stoneId = StonePrefix \o Zeros(IF k < 3 THEN 3 - k ELSE 0)
                                       \o SubSeq(host, 4, 3 + k)
            ELSE IF override \notin {UNDEFINED, <<>>}
                 THEN stoneId = override
                 ELSE FalsyStr(stoneId)

\* a host with four digits and an override has been resolved, to the four digits
C1_Witness ==
    /\ rout # <<>>
    /\ IsiDigits(rin[1], 4)
    /\ rin[2] = Rock
    /\ Len(rout[1]) = Len(StonePrefix) + 4

----------------------------------------------------------------------------
(* Claims about the colour of a new post *)

\* the step is the successful INSERT INTO posts of the request in slot p
Inserts(p) ==
    /\ req[p].pc = "c_insert"
    /\ req'[p].pc = "done"
    /\ req'[p].status = 200

\* the step stored one new post, the one returned to the client, for the stone
\* and the nickname of the request in slot p and with colour c
StoresWithColor(p, c) ==
    \E row \in posts' \ posts :
        /\ posts' = posts \cup {row}
        /\ row.stone_id = req[p].stoneId
        /\ row.nickname = req[p].nickname
        /\ row.pin_color = c
        /\ req'[p].rows = <<PostJson(row)>>

InPalette(c) == \E i \in 1..Len(pinColors) : pinColors[i] = c

\* C2: a post is stored with the first palette colour when the handler found no
\* prior post of the stone, and when the latest prior post it found has no
\* colour, or a colour outside the palette and another nickname.
C2_FirstColor ==
    [][\A p \in Slots :
          (/\ Inserts(p)
           /\ \/ req[p].latestRows = <<>>
              \/ /\ req[p].latestRows # <<>>
                 /\ \/ req[p].latestRows[1].pin_color = NullColor
                    \/ /\ ~InPalette(req[p].latestRows[1].pin_color)
                       /\ req[p].latestRows[1].nickname # req[p].nickname)
          => StoresWithColor(p, "#F17900")]_vars

\* the posts r and o of one stone are its only two, o the older
OnlyTwo(o, r) ==
    /\ o.stone_id = r.stone_id
    /\ o.created_at < r.created_at
    /\ PostsOf(posts, r.stone_id) = {o, r}

\* the request in slot p has stored the post r
Stored(p, r) ==
    /\ req[p].kind = "create" /\ req[p].pc = "done" /\ req[p].status = 200
    /\ req[p].rows = <<PostJson(r)>>

\* a post followed one of another nickname with a colour outside the palette,
\* and has the first palette colour
C2_Witness ==
    \E p \in Slots, o \in posts, r \in posts :
        /\ Stored(p, r) /\ OnlyTwo(o, r)
        /\ o.pin_color = UnknownColor /\ o.nickname # r.nickname
        /\ r.pin_color = pinColors[1]

\* C3: when the latest prior post the handler found has the nickname of the new
\* post and a colour, the new post is stored with that colour.
C3_SameNickname ==
    [][\A p \in Slots :
          (/\ Inserts(p)
           /\ req[p].latestRows # <<>>
           /\ req[p].latestRows[1].nickname = req[p].nickname
           /\ req[p].latestRows[1].pin_color # NullColor)
          => StoresWithColor(p, req[p].latestRows[1].pin_color)]_vars

\* a post followed one of the same nickname, and has its colour
C3_Witness ==
    \E p \in Slots, o \in posts, r \in posts :
        /\ Stored(p, r) /\ OnlyTwo(o, r)
        /\ o.nickname = r.nickname
        /\ o.pin_color = pinColors[2] /\ r.pin_color = pinColors[2]

\* C4: when the latest prior post the handler found has another nickname and
\* the palette colour number i (counted from 0), the new post is stored with
\* palette colour number (i + 1) mod 4.
C4_NextColor ==
    [][\A p \in Slots : \A i \in 0..3 :
          (/\ Inserts(p)
           /\ req[p].latestRows # <<>>
           /\ req[p].latestRows[1].nickname # req[p].nickname
           /\ req[p].latestRows[1].pin_color = pinColors[i + 1])
          => StoresWithColor(p, pinColors[((i + 1) % 4) + 1])]_vars

\* a post followed one of another nickname with the last palette colour, and
\* has the first
C4_Witness ==
    \E p \in Slots, o \in posts, r \in posts :
        /\ Stored(p, r) /\ OnlyTwo(o, r)
        /\ o.nickname # r.nickname
        /\ o.pin_color = pinColors[4] /\ r.pin_color = pinColors[1]

----------------------------------------------------------------------------
(* Claims about concurrent requests and the store *)

ReadDone(p) == req[p].kind = "create" /\ req[p].pc \in {"c_ensure", "c_insert"}

\* C5: nothing serializes create-post requests for one stone.  While one has
\* read the latest post and not yet inserted, another can run its own read; two
\* with different nicknames that have read the same latest row, a row of
\* neither's nickname or no row, hold the same colour for their posts.
C5_SameColorRace ==
    \A p \in Slots, q \in Slots :
        (p # q /\ ReadDone(p) /\ req[q].stoneId = req[p].stoneId) =>
            /\ req[q].pc = "c_latest" => ENABLED CreateLatest(q)
            /\ (/\ ReadDone(q)
                /\ req[q].latestRows = req[p].latestRows
                /\ req[q].nickname # req[p].nickname
                /\ \/ req[p].latestRows = <<>>
                   \/ req[p].latestRows[1].nickname
                          \notin {req[p].nickname, req[q].nickname})
               => req[q].assignedColor = req[p].assignedColor

\* two overlapping requests have stored the only two posts of a stone, of
\* different nicknames and the same colour
C5_Witness ==
    \E r1 \in posts, r2 \in posts :
        /\ Stored("p1", r1) /\ Stored("p2", r2)
        /\ r1.stone_id = r2.stone_id
        /\ PostsOf(posts, r1.stone_id) = {r1, r2}
        /\ r1.nickname # r2.nickname
        /\ r1.pin_color = r2.pin_color

\* the step is the stone-ensuring statement of the request in slot p
Ensures(p) == req[p].pc \in {"l_ensure", "c_ensure"} /\ req'[p] # req[p]

\* C6: the stone-ensuring statement of a list-posts or create-post request
\* never ends the request with an error, leaves exactly one stone row with the
\* request's id, and leaves every row that was there as it was.
C6_EnsureStone ==
    [][\A p \in Slots :
          Ensures(p) =>
            /\ req'[p].pc = IF req[p].pc = "l_ensure" THEN "l_select" ELSE "c_insert"
            /\ Cardinality({st \in stones' : st.id = req[p].stoneId}) = 1
            /\ \A st \in stones : st \in stones']_vars

\* a list-posts and a create-post request, the only two so far, have both
\* ensured the same stone, and it has one row
C6_Witness ==
    /\ started = 2
    /\ req["p1"].stoneId = req["p2"].stoneId
    /\ \E p \in Slots, q \in Slots : req[p].pc = "l_select" /\ req[q].pc = "c_insert"
    /\ Cardinality({st \in stones : st.id = req["p1"].stoneId}) = 1

\* C7: every stored post's stone id is the id of a stone row that exists.
C7_PostsReferenceStones ==
    \A r \in posts : \E st \in stones : st.id = r.stone_id

\* a clear-all has been refused its stone deletion because a post was stored in
\* between, and the post is there with its stone
C7_Witness ==
    /\ posts # {}
    /\ \E p \in Slots :
          req[p].kind = "clear" /\ req[p].pc = "done" /\ req[p].status = 500

\* C8: a list-posts response is sorted strictly by creation timestamp
\* descending, posts of equal timestamp by descending id.
C8_ListSortedWithIdTiebreak ==
    \A p \in Slots :
        (req[p].kind = "list" /\ req[p].pc = "done" /\ req[p].status = 200) =>
            \A i, j \in 1..Len(req[p].rows) :
                i < j =>
                    \/ req[p].rows[i].createdAt > req[p].rows[j].createdAt
                    \/ /\ req[p].rows[i].createdAt = req[p].rows[j].createdAt
                       /\ req[p].rows[i].id > req[p].rows[j].id

StoneIds == {Stone007, Rock}

\* C9: for every stone, the latest-post query returns the row the list query
\* returns first, and no row exactly when the list is empty.
C9_LatestIsFirstListed ==
    \A sid \in StoneIds :
        \A listed \in SelectPosts(posts, sid), latest \in SelectLatest(posts, sid) :
            IF listed = <<>> THEN latest = <<>> ELSE latest = <<listed[1]>>

\* C10: while no post has been written or deleted since a create-post request
\* stored its post, every list-posts response for the stone has that post first.
C10_NewPostListedFirst ==
    \A p \in Slots, r \in posts :
        (Stored(p, r) /\ \A x \in posts : x.id <= r.id) =>
            \A listed \in SelectPosts(posts, r.stone_id) : PostJson(listed[1]) = PostJson(r)

----------------------------------------------------------------------------
(* The claims about clear-all, failures, isolation and the colour policy *)

DeletesPosts(p) == req[p].pc = "d_posts" /\ req'[p].pc = "d_stones"
DeletesStones(p) == req[p].pc = "d_stones" /\ req'[p].pc = "done"

\* what a list-posts request for sid does to the tables S and P: the stones
\* it can leave and the lists it can return
ListLeaves(S, sid) == {EnsureStone(S, sid, t) : t \in Now(S)}
ListReturns(P, sid) == {PostRows(result) : result \in SelectPosts(P, sid)}

\* C11: with requests handled one after another, clear-all first deletes
\* every post and then every stone, answers 200 with the number of rows it
\* removed from each table, and a list-posts request that follows it, for any
\* stone, returns the empty list and leaves that stone as the only stone row,
\* without a location.
C11_ClearAllThenList ==
    [][\A p \in Slots :
          /\ DeletesPosts(p) =>
                /\ posts' = {}
                /\ stones' = stones
                /\ req'[p].deletedPosts = Cardinality(posts)
          /\ DeletesStones(p) =>
                /\ posts' = {} /\ stones' = {}
                /\ req'[p].status = 200
                /\ req'[p].deletedPosts = req[p].deletedPosts
                /\ req'[p].deletedStones = Cardinality(stones)
                /\ \A sid \in StoneIds :
                      /\ ListReturns(posts', sid) = {<<>>}
                      /\ \A S \in ListLeaves(stones', sid) :
                            \E t \in Now(stones') :
                                S = {[id |-> sid, location_lat |-> NullLoc,
                                      created_at |-> t]}
      ]_vars

\* the second of two requests was a list-posts request that followed a
\* clear-all of a database with a post: it returned no post, and its stone is
\* the only one
C11_Witness ==
    /\ started = 2 /\ nextId = 2 /\ posts = {}
    /\ req["p1"].kind = "list" /\ req["p1"].pc = "done" /\ req["p1"].status = 200
    /\ req["p1"].rows = <<>>
    /\ \E st \in stones : stones = {st} /\ st.id = Rock /\ st.location_lat = NullLoc

\* a request of kind k arrives in slot p
Arrives(p, k) == Free(p) /\ started' = started + 1 /\ req'[p].kind = k

\* the request that arrives in slot p is answered with no stone identified
EndsUnresolved(p) == req'[p].pc = "done" /\ FalsyStr(req'[p].stoneId)

\* C12: a list-posts or create-post request for which no stone is identified
\* (a host that does not match, an empty one or none, and no stoneId) is
\* answered 400, and it leaves stones and posts as they were.
C12_UnresolvedAnswers400 ==
    [][\A p \in Slots :
          ((Arrives(p, "list") \/ Arrives(p, "create")) /\ EndsUnresolved(p)) =>
              /\ req'[p].status = 400
              /\ stones' = stones
              /\ posts' = posts
      ]_vars

\* C13: a create-post request for a stone, with a nickname that is missing or
\* empty, is answered 400 at once and writes nothing: no post, no stone, no
\* post id used, whether or not the stone has a row.
C13_InvalidNickname ==
    [][\A p \in Slots :
          (/\ Arrives(p, "create")
           /\ \E host \in Hosts \ {UNDEFINED}, override \in Overrides,
                 nickname \in {"", MissingNick} :
                  /\ ~FalsyStr(ResolveStoneId(host, override))
                  /\ CreateStart(p, host, override, nickname, NoPinColor)) =>
              /\ req'[p].pc = "done"
              /\ req'[p].status = 400
              /\ stones' = stones
              /\ posts' = posts
              /\ nextId' = nextId
      ]_vars

\* a create-post request for stone-007 was answered 400 while that stone has
\* no row
C13_Witness ==
    \E p \in Slots :
        /\ req[p].kind = "create" /\ req[p].pc = "done" /\ req[p].status = 400
        /\ req[p].stoneId = Stone007
        /\ \A st \in stones : st.id # Stone007
        /\ posts = {}

\* the letters of "stone-" and then three or more digits
IsStoneNNN(sid) ==
    /\ Len(sid) >= Len(StonePrefix) + 3
    /\ SubSeq(sid, 1, Len(StonePrefix)) = StonePrefix
    /\ \A k \in Len(StonePrefix) + 1 .. Len(sid) : sid[k] \in Digits

\* C14: every stone row's id has the form stone-NNN, whether the request that
\* created the row took the id from the host or from stoneId.
C14_StoneIdFormat == \A st \in stones : IsStoneNNN(st.id)

\* the colours a create-post request for sid by nickname can be given when it
\* reads the posts P
ColorsFor(P, sid, nickname) ==
    {AssignColor(LatestRows(latest), nickname) : latest \in SelectLatest(P, sid)}

\* C15: a list-posts response for a stone holds that stone's posts and no
\* other, and a step of a create-post request for a stone changes neither
\* what list-posts returns for another stone nor the colour a later post of
\* another stone is given.
C15_FeedsIsolated ==
    [][\A p \in Slots :
          /\ (req[p].pc = "l_select" /\ req'[p].pc = "done") =>
                /\ Len(req'[p].rows) =
                      Cardinality({r \in posts : r.stone_id = req[p].stoneId})
                /\ \A i \in 1..Len(req'[p].rows) :
                      \E r \in posts : /\ r.stone_id = req[p].stoneId
                                       /\ req'[p].rows[i] = PostJson(r)
          /\ (req[p].kind = "create" /\ req'[p] # req[p]) =>
                \A sid \in StoneIds \ {req[p].stoneId} :
                    /\ ListReturns(posts', sid) = ListReturns(posts, sid)
                    /\ \A nickname \in Nicks :
                          ColorsFor(posts', sid, nickname) = ColorsFor(posts, sid, nickname)
      ]_vars

\* a list-posts response for one stone holds its one post while the other
\* stone has a post too
C15_Witness ==
    \E p \in Slots, a \in posts, b \in posts :
        /\ req[p].kind = "list" /\ req[p].pc = "done" /\ req[p].status = 200
        /\ a.stone_id = req[p].stoneId
        /\ b.stone_id # req[p].stoneId
        /\ req[p].rows = <<PostJson(a)>>

\* the insert of the request in slot p succeeds
InsertSucceeds(p) == CreateInsert(p) /\ req'[p].status = 200

\* C16: the colour of a post is the rotation's, whatever pinColor the body
\* holds: create-post requests for the same stone and nickname that read the
\* same latest post are given the same colour, one of the palette, and the
\* insert of each succeeds while its stone has a row.
C16_PinColorIgnored ==
    \A p \in Slots, q \in Slots :
        (/\ ReadDone(p) /\ ReadDone(q)
         /\ req[p].stoneId = req[q].stoneId
         /\ req[p].nickname = req[q].nickname
         /\ req[p].latestRows = req[q].latestRows) =>
            /\ req[p].assignedColor = req[q].assignedColor
            /\ InPalette(req[p].assignedColor)
            /\ (/\ req[p].pc = "c_insert" /\ nextId <= MaxId
                /\ StoneExists(stones, req[p].stoneId)) => ENABLED InsertSucceeds(p)

\* two requests that differ in pinColor only, one with a hex colour and one
\* with a malformed one, have read the same latest post and hold the same colour
C16_Witness ==
    /\ req["p1"].pc = "c_insert" /\ req["p2"].pc = "c_insert"
    /\ req["p1"].pinColor = "#ABCDEF" /\ req["p2"].pinColor = "red"
    /\ req["p1"].stoneId = req["p2"].stoneId
    /\ req["p1"].nickname = req["p2"].nickname
    /\ req["p1"].latestRows = req["p2"].latestRows
    /\ req["p1"].latestRows # <<>>
    /\ req["p1"].assignedColor = req["p2"].assignedColor
    /\ StoneExists(stones, req["p1"].stoneId)

\* a step of the list-posts request in slot p
ListSteps(p) ==
    \/ Arrives(p, "list")
    \/ req[p].kind = "list" /\ req[p].pc \in {"l_ensure", "l_select"} /\ req'[p] # req[p]

\* C17: a step of a list-posts request leaves posts and every stone row as
\* they are; the one thing it may add is the row of its stone, without a
\* location, when that stone has none, so a list-posts request for a stone
\* that has a row changes nothing stored.
C17_ListOnlyEnsuresStone ==
    [][\A p \in Slots :
          ListSteps(p) =>
              /\ posts' = posts
              /\ nextId' = nextId
              /\ stones \subseteq stones'
              /\ \A st \in stones' \ stones :
                    /\ st.id = req[p].stoneId
                    /\ st.location_lat = NullLoc
                    /\ req[p].pc = "l_ensure"
              /\ StoneExists(stones, req[p].stoneId) => stones' = stones
      ]_vars

\* two list-posts requests for the same stone were answered, and the stone's
\* row is the only thing stored
C17_Witness ==
    /\ \A p \in Slots : /\ req[p].kind = "list" /\ req[p].pc = "done"
                        /\ req[p].status = 200 /\ req[p].stoneId = Stone007
    /\ posts = {}
    /\ \E st \in stones : stones = {st} /\ st.id = Stone007 /\ st.location_lat = NullLoc

\* C18: on a database that was empty when the server started, every stored
\* post has a pin colour, and it is one of the four of the palette, whatever
\* create-post, list-posts and clear-all requests have run or are running.
C18_StoredColorsInPalette ==
    \A r \in posts : r.pin_color # NullColor /\ InPalette(r.pin_color)

\* two stored posts with colours of the palette, the second after an advance
C18_Witness ==
    \E o \in posts, r \in posts :
        /\ o.pin_color = at(pinColors, 0)
        /\ r.pin_color = at(pinColors, 1)
        /\ \E p \in Slots : req[p].kind = "clear" /\ req[p].pc = "done"

\* o and r are posts of one stone, r the next after o in its feed
AdjacentInFeed(o, r) ==
    /\ o.stone_id = r.stone_id
    /\ o.created_at < r.created_at
    /\ \A x \in PostsOf(posts, o.stone_id) :
          ~(o.created_at < x.created_at /\ x.created_at < r.created_at)

\* the posts of stone sid have creation timestamps that all differ
DistinctTimestamps(sid) ==
    \A x \in PostsOf(posts, sid), y \in PostsOf(posts, sid) :
        x.created_at = y.created_at => x = y

\* C19: on a database that was empty, with no two create-post requests
\* overlapping, two posts next to each other in a stone's feed whose
\* timestamps all differ have the same colour exactly when they have the same
\* nickname.
C19_AdjacentColors ==
    \A o \in posts, r \in posts :
        (AdjacentInFeed(o, r) /\ DistinctTimestamps(o.stone_id)) =>
            (o.pin_color = r.pin_color <=> o.nickname = r.nickname)

\* a stone's feed holds two posts of one nickname and one colour, made at
\* different times
C19_Witness ==
    \E o \in posts, r \in posts :
        /\ AdjacentInFeed(o, r) /\ DistinctTimestamps(o.stone_id)
        /\ o.nickname = r.nickname
        /\ o.pin_color = r.pin_color
        /\ o.id = 1 /\ r.id = 2

\* C20: however a clear-all request and create-post requests interleave,
\* neither ends in a storage error: a create-post request that got as far as
\* its queries is answered 200, and a clear-all request is answered 200 with
\* no stone left behind.
C20_NoStorageError ==
    \A p \in Slots :
        /\ (/\ req[p].kind = "create" /\ req[p].pc = "done"
            /\ ~FalsyStr(req[p].stoneId)) => req[p].status \in {200, 400}
        /\ (req[p].kind = "clear" /\ req[p].pc = "done") => req[p].status = 200
        /\ (req[p].kind = "clear" /\ req[p].pc = "d_stones") =>
               NoPostReferences(stones, posts)

====
